---- MODULE Spec2Model ----
(***************************************************************************)
(* Model of scripts/view_jsonl.py: the offset indexer                      *)
(* (create_offset_index), the line reader (read_line_at_offset) and the    *)
(* interactive query session (browse_jsonl).                               *)
(*                                                                         *)
(* A file is a sequence of bytes over the alphabet Byte.  Both functions   *)
(* open the file in text mode ("r", encoding="utf-8"), so the bytes go     *)
(* through Python's universal-newline decoder, and f.tell() returns the    *)
(* text-mode position cookie (start position, decoder flags, bytes to      *)
(* feed, need-eof, characters to skip) that f.seek() later restores.       *)
(* Files here are shorter than one read chunk, so one raw read returns     *)
(* the rest of the file.                                                   *)
(***************************************************************************)
EXTENDS Integers, Sequences, FiniteSets, TLC

\* Longest file, in bytes.
MaxLen == 4

LF == "LF"
CR == "CR"
\* "1" is a byte of a valid JSON payload (a digit), "x" a byte of an invalid one.
Byte == {"1", "x", LF, CR}

RECURSIVE SeqsUpTo(_, _)
SeqsUpTo(S, n) ==
    IF n = 0 THEN {<<>>}
    ELSE LET shorter == SeqsUpTo(S, n - 1)
         IN  shorter \cup {Append(s, b) : s \in {t \in shorter : Len(t) = n - 1}, b \in S}

Files == SeqsUpTo(Byte, MaxLen)

Min(a, b) == IF a < b THEN a ELSE b

(***************************************************************************)
(* The text layer of open(path, "r", encoding="utf-8").                    *)
(***************************************************************************)

\* Newline translation of the incremental decoder: CR LF -> LF, CR -> LF.
RECURSIVE Translate(_)
Translate(s) ==
    IF s = <<>> THEN <<>>
    ELSE IF Head(s) = CR
         THEN IF Len(s) >= 2 /\ s[2] = LF
              THEN <<LF>> \o Translate(SubSeq(s, 3, Len(s)))
              ELSE <<LF>> \o Translate(Tail(s))
         ELSE <<Head(s)>> \o Translate(Tail(s))

\* decoder.decode(input, final) from the state "pend" (a CR held back at the
\* end of the previous input): the decoded characters and the new state.
Decode(pend, input, final) ==
    LET raw  == (IF pend THEN <<CR>> ELSE <<>>) \o input
        hold == raw # <<>> /\ raw[Len(raw)] = CR /\ ~final
        body == IF hold THEN SubSeq(raw, 1, Len(raw) - 1) ELSE raw
    IN  [out |-> Translate(body), pend |-> hold]

Flag(pend) == IF pend THEN 1 ELSE 0

NoSnap == [has |-> FALSE, flags |-> FALSE, input |-> <<>>]

\* The file object right after open(): raw position 0, nothing decoded.
NewStream ==
    [pos |-> 0, chars |-> <<>>, used |-> 0, snap |-> NoSnap, pend |-> FALSE,
     rn |-> 0, rd |-> 1]

\* One raw read and decode of the rest of file F; rn/rd is the
\* bytes-to-characters ratio of the chunk that tell() uses.
ReadChunk(F, s) ==
    LET input == SubSeq(F, s.pos + 1, Len(F))
        eof   == input = <<>>
        d     == Decode(s.pend, input, eof)
    IN  [pos |-> Len(F), chars |-> d.out, used |-> 0,
         snap |-> [has |-> TRUE, flags |-> s.pend, input |-> input],
         pend |-> d.pend,
         rn |-> IF d.out = <<>> THEN 0 ELSE Len(input),
         rd |-> IF d.out = <<>> THEN 1 ELSE Len(d.out)]

\* Read chunks until some characters are decoded or the file is exhausted.
RECURSIVE FillChunk(_, _)
FillChunk(F, s) ==
    LET s1 == ReadChunk(F, s)
    IN  IF s1.chars = <<>> /\ s1.snap.input # <<>> THEN FillChunk(F, s1) ELSE s1

HasLF(line) == \E i \in 1..Len(line) : line[i] = LF
FirstLF(line) == CHOOSE i \in 1..Len(line) : line[i] = LF /\ \A j \in 1..(i - 1) : line[j] # LF

\* f.readline(): the characters up to and including the next LF, or up to
\* end-of-file; result is the new file object and the line.
RECURSIVE ReadlineLoop(_, _, _)
ReadlineLoop(F, s, line) ==
    IF HasLF(line)
    THEN LET endpos == FirstLF(line)
         IN  [s    |-> [s EXCEPT !.used = Len(s.chars) - (Len(line) - endpos)],
              line |-> SubSeq(line, 1, endpos)]
    ELSE LET s2 == FillChunk(F, s)
         IN  IF s2.chars # <<>>
             THEN ReadlineLoop(F, [s2 EXCEPT !.used = Len(s2.chars)], line \o s2.chars)
             ELSE [s |-> [s2 EXCEPT !.chars = <<>>, !.used = 0, !.snap = NoSnap],
                   line |-> line]

Readline(F, s) ==
    ReadlineLoop(F, [s EXCEPT !.used = Len(s.chars)],
                 SubSeq(s.chars, s.used + 1, Len(s.chars)))

\* A text-mode position: the packed integer's fields, least significant first.
Cookie(pos, flags, feed, eof, skip) ==
    [pos |-> pos, flags |-> flags, feed |-> feed, eof |-> eof, skip |-> skip]

\* Order of two positions as the integers Python packs them into: the field
\* packed highest decides first.
CookieLess(a, b) ==
    LET ka == <<a.eof, a.skip, a.feed, a.flags, a.pos>>
        kb == <<b.eof, b.skip, b.feed, b.flags, b.pos>>
    IN  \E i \in 1..5 : ka[i] < kb[i] /\ \A j \in 1..(i - 1) : ka[j] = kb[j]

\* A position that is a plain byte offset: every field above pos is zero.
IsByteOffset(c) == c.flags = 0 /\ c.feed = 0 /\ c.eof = 0 /\ c.skip = 0

\* tell(), first phase: the start point nearest to the current position that
\* the bytes-to-characters ratio finds.  Result: <<skip_bytes, flags, k>>.
RECURSIVE FastSearch(_, _, _, _, _)
FastSearch(input, flags, k, skipBytes, skipBack) ==
    IF skipBytes <= 0 THEN <<0, flags, k>>
    ELSE LET d == Decode(flags, SubSeq(input, 1, skipBytes), FALSE)
         IN  IF Len(d.out) <= k
             THEN <<skipBytes, d.pend, k - Len(d.out)>>
             ELSE FastSearch(input, flags, k, skipBytes - skipBack, skipBack * 2)

\* tell(), second phase: feed the decoder one byte at a time from the start
\* point, remembering the last safe start point.
RECURSIVE FeedLoop(_, _, _, _, _, _, _, _)
FeedLoop(input, i, pend, startPos, startFlags, fed, decoded, k) ==
    IF i > Len(input)
    THEN Cookie(startPos, Flag(startFlags), fed, 1, k)
    ELSE LET d    == Decode(pend, <<input[i]>>, FALSE)
             fed1 == fed + 1
             dec1 == decoded + Len(d.out)
             safe == dec1 <= k
             sp   == IF safe THEN startPos + fed1 ELSE startPos
             sf   == IF safe THEN d.pend ELSE startFlags
             k2   == IF safe THEN k - dec1 ELSE k
             fed2 == IF safe THEN 0 ELSE fed1
             dec2 == IF safe THEN 0 ELSE dec1
         IN  IF dec2 >= k2
             THEN Cookie(sp, Flag(sf), fed2, 0, k2)
             ELSE FeedLoop(input, i + 1, d.pend, sp, sf, fed2, dec2, k2)

\* f.tell() on file object s.
Tell(s) ==
    IF ~s.snap.has THEN Cookie(s.pos, 0, 0, 0, 0)
    ELSE LET input    == s.snap.input
             position == s.pos - Len(input)
         IN  IF s.used = 0 THEN Cookie(position, Flag(s.snap.flags), 0, 0, 0)
             ELSE LET fs == FastSearch(input, s.snap.flags, s.used,
                                       (s.rn * s.used) \div s.rd, 1)
                  IN  IF fs[3] = 0 THEN Cookie(position + fs[1], Flag(fs[2]), 0, 0, 0)
                      ELSE FeedLoop(input, fs[1] + 1, fs[2], position + fs[1], fs[2],
                                    0, 0, fs[3])

\* f.seek(cookie) on a freshly opened file object of file F.
Seek(F, c) ==
    IF c.skip = 0
    THEN [NewStream EXCEPT !.pos = c.pos, !.pend = (c.flags = 1),
                           !.snap = [has |-> c # Cookie(0, 0, 0, 0, 0),
                                     flags |-> (c.flags = 1), input |-> <<>>]]
    ELSE LET input == SubSeq(F, c.pos + 1, Min(c.pos + c.feed, Len(F)))
             d     == Decode(c.flags = 1, input, c.eof = 1)
         IN  [pos |-> c.pos + Len(input), chars |-> d.out, used |-> c.skip,
              snap |-> [has |-> TRUE, flags |-> (c.flags = 1), input |-> input],
              pend |-> d.pend, rn |-> 0, rd |-> 1]

\* str.rstrip("\n"): drop every trailing LF.
RECURSIVE RStripLF(_)
RStripLF(t) ==
    IF t # <<>> /\ t[Len(t)] = LF THEN RStripLF(SubSeq(t, 1, Len(t) - 1)) ELSE t

\* Variant of read_line_at_offset that leaves the terminator on the line.
read_line_keep_newline(F, offset) == Readline(F, Seek(F, offset)).line

\* read_line_at_offset(jsonl_path, offset)
read_line_at_offset(F, offset) == RStripLF(Readline(F, Seek(F, offset)).line)

\* create_offset_index(jsonl_path), run to completion from scan state
\* <<file object, offsets so far>>.
RECURSIVE ScanFrom(_, _, _)
ScanFrom(F, s, offs) ==
    LET current_pos == Tell(s)
        r           == Readline(F, s)
    IN  IF r.line = <<>> THEN offs ELSE ScanFrom(F, r.s, Append(offs, current_pos))

create_offset_index(F) == ScanFrom(F, NewStream, <<>>)

(***************************************************************************)
(* The command line of the query session: characters typed at the prompt.  *)
(***************************************************************************)

DecDigit == <<"0", "1", "2", "3", "4", "5", "6", "7", "8", "9">>
\* "sup2" is the superscript two: a digit for str.isdigit(), not for int().
Sup2 == "sup2"

Strs(n) == <<DecDigit[n + 1]>>

Inputs ==
    {<<"q", "u", "i", "t">>, <<" ", "Q", "u", "I", "T", " ">>,
     <<"r", "a", "n", "d", "o", "m">>, <<"R", "a", "N", "d", "o", "M", " ">>,
     <<"-", "1">>, <<"a", "b", "c">>, <<>>, <<" ">>, <<Sup2>>,
     <<" ", "0", "1">>, <<"1", "2">>}
    \cup {Strs(n) : n \in 0..(MaxLen + 1)}

\* str.strip(): drop leading and trailing blanks.
RECURSIVE strip(_)
strip(t) ==
    IF t # <<>> /\ Head(t) = " " THEN strip(Tail(t))
    ELSE IF t # <<>> /\ t[Len(t)] = " " THEN strip(SubSeq(t, 1, Len(t) - 1))
    ELSE t

LowerChar(c) ==
    CASE c = "Q" -> "q" [] c = "U" -> "u" [] c = "I" -> "i" [] c = "T" -> "t"
      [] c = "R" -> "r" [] c = "A" -> "a" [] c = "N" -> "n" [] c = "D" -> "d"
      [] c = "O" -> "o" [] c = "M" -> "m" [] OTHER -> c

\* str.lower()
lower(t) == [i \in 1..Len(t) |-> LowerChar(t[i])]

\* Variant of Normalize that compares case-sensitively.
Normalize_case_sensitive(raw) == strip(raw)

\* input(...).strip().lower()
Normalize(raw) == lower(strip(raw))

IsDecDigit(c) == \E n \in 1..10 : DecDigit[n] = c

\* str.isdigit()
isdigit(t) == t # <<>> /\ \A i \in 1..Len(t) : IsDecDigit(t[i]) \/ t[i] = Sup2

\* int(t) raises ValueError on a digit that is not a decimal digit.
IntRaises(t) == \E i \in 1..Len(t) : ~IsDecDigit(t[i])

DigitVal(c) == (CHOOSE n \in 1..10 : DecDigit[n] = c) - 1

\* int(t) for a string of decimal digits.
RECURSIVE int(_)
int(t) == IF t = <<>> THEN 0 ELSE 10 * int(SubSeq(t, 1, Len(t) - 1)) + DigitVal(t[Len(t)])

\* json.loads(line) succeeds: over Byte, exactly the non-empty digit strings.
JsonOk(line) == line # <<>> /\ \A i \in 1..Len(line) : line[i] = "1"

(***************************************************************************)
(* State.                                                                  *)
(***************************************************************************)
VARIABLES
    file,         \* the bytes of jsonl_path, never written
    pc,           \* "start", "indexing", "running", "stopped", "crashed"
    f,            \* create_offset_index: the file object of the scan
    fopen,        \* create_offset_index: the file object is open
    scan_offsets, \* create_offset_index: its local list "offsets"
    offsets,      \* browse_jsonl: the table returned by the indexer
    total_lines,  \* browse_jsonl: len(offsets)
    prompted,     \* input() has been called
    user_input,   \* the last line typed at the prompt
    msg,          \* what the last command printed
    line_read,    \* the read_line_at_offset call of the last command, if any
    first_read,   \* history: per index, the text its first read returned
    reread,       \* history: some index has been read more than once
    random_seen,  \* history: the indices random commands have selected
    exit          \* process exit: "none", "success", "io_error", "json_error", "value_error"

vars == <<file, pc, f, fopen, scan_offsets, offsets, total_lines, prompted,
          user_input, msg, line_read, first_read, reread, random_seen, exit>>

NoRead == [did |-> FALSE, idx |-> 0, offset |-> Cookie(0, 0, 0, 0, 0), text |-> <<>>]

Init ==
    /\ file \in Files
    /\ pc = "start"
    /\ f = NewStream
    /\ fopen = FALSE
    /\ scan_offsets = <<>>
    /\ offsets = <<>>
    /\ total_lines = 0
    /\ prompted = FALSE
    /\ user_input = <<>>
    /\ msg = "none"
    /\ line_read = NoRead
    /\ first_read = {}
    /\ reread = FALSE
    /\ random_seen = {}
    /\ exit = "none"

session == <<offsets, total_lines, prompted, user_input, msg, line_read, first_read,
             reread, random_seen>>

(***************************************************************************)
(* create_offset_index, called from browse_jsonl.                          *)
(***************************************************************************)

\* open(jsonl_path, "r", encoding="utf-8") succeeds; offsets = [].
OpenFile ==
    /\ pc = "start"
    /\ pc' = "indexing"
    /\ f' = NewStream
    /\ fopen' = TRUE
    /\ scan_offsets' = <<>>
    /\ UNCHANGED <<file, session, exit>>

\* open() raises OSError: the exception leaves browse_jsonl uncaught.
OpenFail ==
    /\ pc = "start"
    /\ pc' = "crashed"
    /\ exit' = "io_error"
    /\ UNCHANGED <<file, f, fopen, scan_offsets, session>>

\* One iteration of the scan that finds a line: record the position.
ScanLine ==
    /\ pc = "indexing"
    /\ LET current_pos == Tell(f)
           r           == Readline(file, f)
       IN  /\ r.line # <<>>
           /\ f' = r.s
           /\ scan_offsets' = Append(scan_offsets, current_pos)
    /\ UNCHANGED <<file, pc, fopen, session, exit>>

\* Variant of ScanEnd that appends the position before testing for
\* end-of-file.
ScanEnd_append_first ==
    /\ pc = "indexing"
    /\ Readline(file, f).line = <<>>
    /\ f' = Readline(file, f).s
    /\ fopen' = FALSE
    /\ offsets' = Append(scan_offsets, Tell(f))
    /\ total_lines' = Len(scan_offsets) + 1
    /\ pc' = "running"
    /\ UNCHANGED <<file, scan_offsets, prompted, user_input, msg, line_read,
                   first_read, reread, random_seen, exit>>

\* The iteration that reads nothing: break, close the file, return the
\* list; browse_jsonl binds offsets and total_lines.
ScanEnd ==
    /\ pc = "indexing"
    /\ Readline(file, f).line = <<>>
    /\ f' = Readline(file, f).s
    /\ fopen' = FALSE
    /\ offsets' = scan_offsets
    /\ total_lines' = Len(scan_offsets)
    /\ pc' = "running"
    /\ UNCHANGED <<file, scan_offsets, prompted, user_input, msg, line_read,
                   first_read, reread, random_seen, exit>>

\* Variant of ScanFail that opens the file without a with block: the
\* exception leaves it open.
ScanFail_leak ==
    /\ pc = "indexing"
    /\ pc' = "crashed"
    /\ exit' = "io_error"
    /\ UNCHANGED <<file, f, fopen, scan_offsets, session>>

\* tell() or readline() raises OSError mid-scan: the with block closes the
\* file and the exception leaves browse_jsonl uncaught.
ScanFail ==
    /\ pc = "indexing"
    /\ fopen' = FALSE
    /\ pc' = "crashed"
    /\ exit' = "io_error"
    /\ UNCHANGED <<file, f, scan_offsets, session>>

(***************************************************************************)
(* browse_jsonl: one iteration of the command loop per action.             *)
(***************************************************************************)

Record(idx, text) ==
    IF \E p \in first_read : p[1] = idx THEN first_read
    ELSE first_read \cup {<<idx, text>>}

\* Variant of Serve that reads at offsets[idx - 1] (for idx 0 Python's
\* offsets[-1], the last entry).
Serve_prev(idx) ==
    LET at   == IF idx = 0 THEN Len(offsets) ELSE idx
        line == read_line_at_offset(file, offsets[at])
    IN  /\ line_read' = [did |-> TRUE, idx |-> idx, offset |-> offsets[at],
                         text |-> line]
        /\ first_read' = Record(idx, line)
        /\ reread' = (reread \/ \E p \in first_read : p[1] = idx)
        /\ UNCHANGED <<offsets, total_lines>>
        /\ IF JsonOk(line)
           THEN msg' = "line" /\ UNCHANGED <<pc, exit>>
           ELSE msg' = "header" /\ pc' = "crashed" /\ exit' = "json_error"

\* Variant of Serve that takes the entry out of the table (offsets.pop(idx))
\* instead of indexing it.
Serve_pop(idx) ==
    LET line == read_line_at_offset(file, offsets[idx + 1])
    IN  /\ line_read' = [did |-> TRUE, idx |-> idx, offset |-> offsets[idx + 1],
                         text |-> line]
        /\ first_read' = Record(idx, line)
        /\ reread' = (reread \/ \E p \in first_read : p[1] = idx)
        /\ offsets' = [i \in 1..(Len(offsets) - 1) |->
                          IF i <= idx THEN offsets[i] ELSE offsets[i + 1]]
        /\ total_lines' = total_lines - 1
        /\ IF JsonOk(line)
           THEN msg' = "line" /\ UNCHANGED <<pc, exit>>
           ELSE msg' = "header" /\ pc' = "crashed" /\ exit' = "json_error"

\* read_line_at_offset(jsonl_path, offsets[idx]), print the header, parse
\* and print the line; json.loads raising ends the process.
Serve(idx) ==
    LET line == read_line_at_offset(file, offsets[idx + 1])
    IN  /\ line_read' = [did |-> TRUE, idx |-> idx, offset |-> offsets[idx + 1],
                         text |-> line]
        /\ first_read' = Record(idx, line)
        /\ reread' = (reread \/ \E p \in first_read : p[1] = idx)
        /\ UNCHANGED <<offsets, total_lines>>
        /\ IF JsonOk(line)
           THEN msg' = "line" /\ UNCHANGED <<pc, exit>>
           ELSE msg' = "header" /\ pc' = "crashed" /\ exit' = "json_error"

Reject(m) ==
    /\ msg' = m
    /\ line_read' = NoRead
    /\ UNCHANGED <<pc, exit, first_read, reread, offsets, total_lines>>

\* user_input == "quit"
Quit(raw) ==
    /\ pc = "running"
    /\ Normalize(raw) = <<"q", "u", "i", "t">>
    /\ prompted' = TRUE
    /\ user_input' = raw
    /\ msg' = "exiting"
    /\ line_read' = NoRead
    /\ pc' = "stopped"
    /\ exit' = "success"
    /\ UNCHANGED <<file, f, fopen, scan_offsets, offsets, total_lines, first_read,
                   reread, random_seen>>

\* user_input == "random"
Random(raw) ==
    /\ pc = "running"
    /\ Normalize(raw) = <<"r", "a", "n", "d", "o", "m">>
    /\ prompted' = TRUE
    /\ user_input' = raw
    /\ IF total_lines = 0
       THEN Reject("empty") /\ UNCHANGED random_seen
       ELSE \E line_idx \in 0..(total_lines - 1) :
               Serve(line_idx) /\ random_seen' = random_seen \cup {line_idx}
    /\ UNCHANGED <<file, f, fopen, scan_offsets>>

\* the else branch: an integer line index, or an invalid command
Other(raw) ==
    /\ pc = "running"
    /\ Normalize(raw) # <<"q", "u", "i", "t">>
    /\ Normalize(raw) # <<"r", "a", "n", "d", "o", "m">>
    /\ prompted' = TRUE
    /\ user_input' = raw
    /\ IF isdigit(Normalize(raw))
       THEN IF IntRaises(Normalize(raw))
            THEN /\ msg' = "none"
                 /\ line_read' = NoRead
                 /\ pc' = "crashed"
                 /\ exit' = "value_error"
                 /\ UNCHANGED <<first_read, reread, offsets, total_lines>>
            ELSE LET idx == int(Normalize(raw))
                 IN  IF 0 <= idx /\ idx < total_lines
                     THEN Serve(idx)
                     ELSE Reject("invalid_index")
       ELSE Reject("invalid_command")
    /\ UNCHANGED <<file, f, fopen, scan_offsets, random_seen>>

Next ==
    \/ OpenFile
    \/ OpenFail
    \/ ScanLine
    \/ ScanEnd
    \/ ScanFail
    \/ \E raw \in Inputs : Quit(raw)
    \/ \E raw \in Inputs : Random(raw)
    \/ \E raw \in Inputs : Other(raw)

Spec == Init /\ [][Next]_vars

(***************************************************************************)
(* Reference notions the properties are stated against.                    *)
(***************************************************************************)

IsTerm(b) == b = LF \/ b = CR

\* The lines of F: maximal runs of non-terminator bytes, each ended by one
\* terminator (LF, CR LF or CR) or by end-of-file; no line after a final
\* terminator.
RECURSIVE RefLines(_)
RefLines(F) ==
    IF F = <<>> THEN <<>>
    ELSE IF \A i \in 1..Len(F) : ~IsTerm(F[i]) THEN <<F>>
    ELSE LET t == CHOOSE i \in 1..Len(F) :
                      IsTerm(F[i]) /\ \A j \in 1..(i - 1) : ~IsTerm(F[j])
             n == IF F[t] = CR /\ t < Len(F) /\ F[t + 1] = LF THEN 2 ELSE 1
         IN  <<SubSeq(F, 1, t - 1)>> \o RefLines(SubSeq(F, t + n, Len(F)))

Indexed == pc \in {"running", "stopped"} \/ exit \in {"json_error", "value_error"}

QuitSpellings == {<<"q", "u", "i", "t">>, <<" ", "Q", "u", "I", "T", " ">>}
RandomSpellings == {<<"r", "a", "n", "d", "o", "m">>, <<"R", "a", "N", "d", "o", "M", " ">>}

\* An integer literal as typed: decimal digits with an optional minus sign.
IsDecimal(t) == t # <<>> /\ \A i \in 1..Len(t) : IsDecDigit(t[i])
IsIntLiteral(t) == IsDecimal(t) \/ (t # <<>> /\ Head(t) = "-" /\ IsDecimal(Tail(t)))
IntValue(t) == IF Head(t) = "-" THEN 0 - int(Tail(t)) ELSE int(t)

StrictlyIncreasing(offs) ==
    \A i \in 1..(Len(offs) - 1) : CookieLess(offs[i], offs[i + 1])
StartsAtZero(offs) == offs = <<>> \/ offs[1] = Cookie(0, 0, 0, 0, 0)

\* The bytes between entry i and the next entry (end-of-file for the last).
Segment(F, offs, i) ==
    SubSeq(F, offs[i].pos + 1, IF i < Len(offs) THEN offs[i + 1].pos ELSE Len(F))

\* The table cuts F into its lines: every entry is a byte offset, the first
\* is 0, and each segment is one non-empty line with its terminator.
Covers(F, offs) ==
    /\ (offs = <<>>) = (F = <<>>)
    /\ \A i \in 1..Len(offs) : IsByteOffset(offs[i])
    /\ offs # <<>> => offs[1].pos = 0
    /\ \A i \in 1..Len(offs) :
          /\ Segment(F, offs, i) # <<>>
          /\ Len(RefLines(Segment(F, offs, i))) = 1

(***************************************************************************)
(* Properties.                                                             *)
(***************************************************************************)

\* C1: for every index i of the table built for the file, reading at
\* offsets[i] returns exactly the text of the i-th line of the file without
\* its terminator (first, middle, last, blank, unterminated last line); the
\* reads the session performs return that text too.
C1_ReadReturnsLine ==
    /\ \A i \in 1..Len(create_offset_index(file)) :
          /\ i <= Len(RefLines(file))
          /\ read_line_at_offset(file, create_offset_index(file)[i]) = RefLines(file)[i]
    /\ line_read.did =>
          /\ line_read.idx + 1 <= Len(RefLines(file))
          /\ line_read.text = RefLines(file)[line_read.idx + 1]

\* C1 witness: the blank middle line of a three-line file whose last line
\* has no terminator has been read, as the empty text.
C1_Witness ==
    /\ file = <<"1", LF, LF, "1">>
    /\ line_read.did /\ line_read.idx = 1 /\ line_read.text = <<>>

\* C2: the table the indexer returns has one entry per line of the file:
\* none for the empty file, one for an unterminated last line, none extra for
\* a trailing terminator, one for each blank line.
C2_TableLengthIsLineCount ==
    /\ Len(create_offset_index(file)) = Len(RefLines(file))
    /\ Indexed => /\ offsets = create_offset_index(file)
                  /\ total_lines = Len(RefLines(file))

\* C2 witness: indexing has returned for a file of two blank lines and an
\* unterminated last line.
C2_Witness ==
    /\ pc = "running"
    /\ file = <<LF, LF, "1">>
    /\ total_lines = 3

\* C3: a request for a line index outside [0, total_lines), negative ones
\* included, fails with the out-of-range message, reads nothing and leaves
\* the session running.
C3_OutOfRangeRejected ==
    (prompted /\ IsIntLiteral(Normalize(user_input))
       /\ ~(0 <= IntValue(Normalize(user_input))
            /\ IntValue(Normalize(user_input)) < total_lines))
    => (msg = "invalid_index" /\ ~line_read.did /\ pc = "running")

\* C4: only an I/O failure terminates the process: an out-of-range index, a
\* malformed command and a served line that is not valid JSON each leave the
\* session running.
C4_OnlyIOFailureTerminates ==
    /\ pc = "crashed" => exit = "io_error"
    /\ msg \in {"invalid_index", "invalid_command"} => pc = "running"
    /\ (line_read.did /\ ~JsonOk(line_read.text)) => pc = "running"

\* C5: entering quit (any letter case, surrounding blanks) while running
\* stops the session with success and without reading the file, and a
\* stopped session takes no further step.
C5_QuitStops ==
    /\ [][(pc = "running" /\ user_input' \in QuitSpellings)
            => (pc' = "stopped" /\ exit' = "success" /\ msg' = "exiting"
                /\ ~line_read'.did /\ first_read' = first_read)]_vars
    /\ [][pc = "stopped" => UNCHANGED vars]_vars

\* C5 witness: the session has stopped on " QuIT ".
C5_Witness ==
    /\ pc = "stopped"
    /\ exit = "success"
    /\ user_input = <<" ", "Q", "u", "I", "T", " ">>

\* C6: after a random command on a non-empty table the line served is the
\* one at offsets[selected] with selected in [0, total_lines); every index
\* random commands have selected lies in that range; on an empty table the
\* command is rejected with a message, reads nothing and the session keeps
\* running.
C6_RandomInRange ==
    /\ (prompted /\ user_input \in RandomSpellings) =>
          IF total_lines = 0
          THEN msg = "empty" /\ ~line_read.did /\ pc = "running"
          ELSE /\ line_read.did
               /\ line_read.idx \in 0..(total_lines - 1)
               /\ line_read.idx \in random_seen
               /\ line_read.offset = offsets[line_read.idx + 1]
               /\ line_read.text = RefLines(file)[line_read.idx + 1]
    /\ random_seen \subseteq 0..(total_lines - 1)

\* C6 witness: random commands have selected every index of the table, the
\* first and the last included.
C6_Witness ==
    /\ user_input \in RandomSpellings
    /\ total_lines >= 2
    /\ random_seen = 0..(total_lines - 1)
    /\ line_read.did

\* C7: during the scan and in the returned table the offsets are strictly
\* increasing and the first one, if any, is 0.
C7_OffsetsStrictlyIncreasing ==
    /\ StrictlyIncreasing(scan_offsets) /\ StartsAtZero(scan_offsets)
    /\ StrictlyIncreasing(offsets) /\ StartsAtZero(offsets)

\* C8: every read of an index returns the text its first read returned,
\* whatever was read in between, and no command changes the table or the
\* line count.
C8_ReadsIdempotent ==
    /\ [](line_read.did => <<line_read.idx, line_read.text>> \in first_read)
    /\ [][pc = "running" => (offsets' = offsets /\ total_lines' = total_lines)]_vars

\* C8 witness: two different indices have been read and one of them again.
C8_Witness ==
    /\ reread
    /\ line_read.did
    /\ Cardinality(first_read) >= 2

\* C9: the returned table covers the file: line i is the bytes from
\* offsets[i] up to offsets[i+1] (end-of-file for the last), every byte is in
\* exactly one indexed line and no indexed line is empty on disk.
C9_TableCoversFile == Indexed => Covers(file, offsets)

\* C10: nothing is prompted, read or served before indexing has completed;
\* when indexing fails with an I/O error the session has no table, the file
\* is closed and the process has ended in error without a prompt.
C10_NoQueryBeforeIndexed ==
    /\ ~Indexed => /\ ~prompted /\ ~line_read.did /\ msg = "none"
                   /\ offsets = <<>> /\ total_lines = 0
    /\ exit = "io_error" => pc = "crashed" /\ ~fopen
    /\ fopen => pc = "indexing"

\* C10 witness: the scan failed after it had recorded positions.
C10_Witness ==
    /\ exit = "io_error"
    /\ Len(scan_offsets) >= 2

====
